---- MODULE Spec2Model ----
(***************************************************************************)
(* Model of the merge engine of biothings.databuild.builder (DataBuilder,  *)
(* BuilderManager) and of the command singleton of biothings.utils.hub     *)
(* (HubShell.eval), for one build configuration "c1".                      *)
(*                                                                         *)
(* Names (sources, collections, root entries, regex patterns) are          *)
(* sequences of one-character strings, so that startswith("!"),            *)
(* replace("!","") and the anchored regex match are computed, not assumed. *)
(***************************************************************************)
EXTENDS Integers, Sequences, FiniteSets, TLC

(***************************************************************************)
(* Bounds of the model.                                                    *)
(***************************************************************************)
\* merges started over a behaviour (operator commands and poll ticks together)
MaxMerges == 2
\* disturbances over a behaviour: faults the environment injects (a batch
\* worker raising or returning a non-count value, the post-merge job raising,
\* store_stats' own calls raising) and cancellations by the operator
MaxFaults == 1
\* DataBuilder.__init__'s max_build_status argument (default 10), taken small
\* so that eviction of the oldest history entry happens within MaxMerges
max_build_status == 1

(***************************************************************************)
(* Names.                                                                  *)
(***************************************************************************)
A == <<"a">>
B == <<"b">>
C == <<"c">>
D == <<"d">>
X == <<"x">>
Y == <<"y">>
Z == <<"z">>
NotA == <<"!", "a">>
NotB == <<"!", "b">>
NotX == <<"!", "x">>
Bang == <<"!">>
CHR == <<"c", "h", "r">>

\* build_config["sources"] of the modelled configuration
ConfigSources == <<A, B>>

\* source_backend.get_src_master_docs(): master records by source name; "chr"
\* is a split-collection source whose name is a regex
MasterNames == {A, B, C, D, X, Y, Z, CHR}
SrcMaster(src) ==
    IF src = CHR THEN [_id |-> CHR, name |-> <<"c", "h", "r", "_", ".", "*">>]
                 ELSE [_id |-> src, name |-> src]

\* the documents (by _id) each source collection holds
SourceIds(src) == IF src = A THEN <<1, 2, 3>> ELSE IF src = B THEN <<2, 3, 4>> ELSE <<>>
Ids == {1, 2, 3, 4}
\* merge_sources' batch_size argument (default 100000), taken small so that a
\* source is split into several merge batches
batch_size == 2

(***************************************************************************)
(* Sequence helpers.                                                       *)
(***************************************************************************)
Range(s) == {s[i] : i \in 1..Len(s)}

Last(s) == s[Len(s)]

\* Python's sorted() of a set of names, for the names of the model: the
\* sequence of its elements in the fixed order
\* a < b < c < chr_1 < chr_2 < chr_MT < d < other < x < y < z
NameOrder ==
    <<A, B, C, <<"c", "h", "r", "_", "1">>, <<"c", "h", "r", "_", "2">>,
      <<"c", "h", "r", "_", "M", "T">>, D, <<"o", "t", "h", "e", "r">>, X, Y, Z>>
Sorted(S) == SelectSeq(NameOrder, LAMBDA n : n \in S)

RECURSIVE Concat(_)
Concat(ss) == IF ss = <<>> THEN <<>> ELSE Head(ss) \o Concat(Tail(ss))

(***************************************************************************)
(* re.compile("^%s$" % search).match(col), for patterns made of literal    *)
(* characters, "." and a trailing "*" on a character.                      *)
(***************************************************************************)
CharMatch(pc, c) == pc = "." \/ pc = c

RECURSIVE PatMatch(_, _)
PatMatch(pat, s) ==
    IF pat = <<>> THEN s = <<>>
    ELSE IF Len(pat) >= 2 /\ pat[2] = "*"
         THEN \/ PatMatch(Tail(Tail(pat)), s)
              \/ (s # <<>> /\ CharMatch(pat[1], s[1]) /\ PatMatch(pat, Tail(s)))
         ELSE s # <<>> /\ CharMatch(pat[1], s[1]) /\ PatMatch(Tail(pat), Tail(s))

(***************************************************************************)
(* DataBuilder.resolve_sources: for every given source, in order, the      *)
(* collections of the catalog (in catalog order) that match its pattern.   *)
(* The result is [err, val]: err when a source has no master record        *)
(* (BuilderException), val the list found.                                 *)
(***************************************************************************)
\* a mutant of resolve_one: the pattern is always the source name itself
resolve_one_literal(src, colseq) == SelectSeq(colseq, LAMBDA col : PatMatch(src, col))

resolve_one(src, colseq) ==
    LET master == SrcMaster(src)
        search == IF master._id # master.name THEN master.name ELSE src
    IN  SelectSeq(colseq, LAMBDA col : PatMatch(search, col))

resolve_sources(sources, catalog) ==
    IF \E i \in 1..Len(sources) : sources[i] \notin MasterNames
    THEN [err |-> TRUE, val |-> <<>>]
    ELSE [err |-> FALSE,
          val |-> Concat([i \in 1..Len(sources) |-> resolve_one(sources[i], Sorted(catalog))])]

(***************************************************************************)
(* DataBuilder.get_root_document_sources.                                  *)
(***************************************************************************)
startswith_bang(src) == Len(src) >= 1 /\ src[1] = "!"
replace_bang(src) == SelectSeq(src, LAMBDA c : c # "!")

\* mutants of get_root_document_sources: the "!" is not stripped from the
\* negated names; a mixed list is not refused
get_root_document_sources_nostrip(root_key, srcs, catalog) ==
    LET none_root_srcs == SelectSeq(root_key, startswith_bang)
    IN  IF none_root_srcs # <<>>
        THEN IF Len(none_root_srcs) # Len(root_key)
             THEN [err |-> TRUE, val |-> <<>>]
             ELSE resolve_sources(Sorted(Range(srcs) \ Range(none_root_srcs)), catalog)
        ELSE resolve_sources(root_key, catalog)

get_root_document_sources_nomix(root_key, srcs, catalog) ==
    LET none_root_srcs == [i \in 1..Len(SelectSeq(root_key, startswith_bang)) |->
                               replace_bang(SelectSeq(root_key, startswith_bang)[i])]
    IN  IF none_root_srcs # <<>>
        THEN resolve_sources(Sorted(Range(srcs) \ Range(none_root_srcs)), catalog)
        ELSE resolve_sources(root_key, catalog)

get_root_document_sources(root_key, srcs, catalog) ==
    LET none_root_srcs == [i \in 1..Len(SelectSeq(root_key, startswith_bang)) |->
                               replace_bang(SelectSeq(root_key, startswith_bang)[i])]
    IN  IF none_root_srcs # <<>>
        THEN IF Len(none_root_srcs) # Len(root_key)
             THEN [err |-> TRUE, val |-> <<>>]
             ELSE resolve_sources(Sorted(Range(srcs) \ Range(none_root_srcs)), catalog)
        ELSE resolve_sources(root_key, catalog)

\* mutants of Upsert: the "not" of the first test lost; every source upserts
Upsert_lostnot(defined_root_sources, src_name) ==
    defined_root_sources # <<>> \/ src_name \in Range(defined_root_sources)

Upsert_always(defined_root_sources, src_name) == TRUE

\* merge_source: upsert = not defined_root_sources or src_name in defined_root_sources
Upsert(defined_root_sources, src_name) ==
    defined_root_sources = <<>> \/ src_name \in Range(defined_root_sources)


(***************************************************************************)
(* The build configurations the model starts from: the root list of the    *)
(* configuration (build_config[doc_root_key]) and the live catalog of the  *)
(* source database (src_db.collection_names()).                            *)
(***************************************************************************)
CHR1 == <<"c", "h", "r", "_", "1">>

Configs ==
    { [root |-> <<>>,          cols |-> {A, B}],        \* empty list: all may create
      [root |-> <<A>>,         cols |-> {A, B}],        \* positive list
      [root |-> <<A>>,         cols |-> {B}],           \* positive list, collection a missing
      [root |-> <<NotA, NotB>>, cols |-> {A, B}],       \* negated list naming every source
      [root |-> <<A, NotB>>,   cols |-> {A, B}],        \* mixed list (an error)
      [root |-> <<CHR>>,       cols |-> {A, B, CHR1}] } \* root outside the merged sources

(***************************************************************************)
(* Operator command lines (after line.strip()) and the arguments           *)
(* BuilderManager.merge receives from each: two spellings of the full      *)
(* merge of "c1" and an incremental merge of source "b". None stands for   *)
(* sources=None. All merges of the configuration address the same target   *)
(* collection (the operator passes the same target_name).                  *)
(***************************************************************************)
None == <<"None">>
Lines == {"merge('c1')", "merge(\"c1\")", "merge('c1','b')"}
LineSources(line) == IF line = "merge('c1','b')" THEN B ELSE None

(***************************************************************************)
(* The build configuration document of src_build: its "build" history and  *)
(* its pending_to_build flag. A history entry records its status and step  *)
(* and which of the optional fields pid, time/time_in_s, err and           *)
(* stats/src_version it holds.                                             *)
(***************************************************************************)
Steps == {"init", "merge-root", "merge-others", "finalizing", "post-merge"}

\* the "build" keyword argument of register_status: the step (NoStep when not
\* given), and whether err / stats+src_version are given
NoStep == "-"
Extra(step, err, stats) == [step |-> step, err |-> err, stats |-> stats]

\* build_info of register_status (lines 200-219) as a fresh history entry
build_info(status, transient, extra) ==
    [status |-> status, step |-> extra.step, pid |-> transient,
     time |-> ~transient, err |-> extra.err, stats |-> extra.stats]

\* dict.update(build_info) on the last entry (line 240): the keys build_info
\* holds replace the entry's, the others stay
entry_update(e, status, transient, extra) ==
    [status |-> status,
     step   |-> IF extra.step # NoStep THEN extra.step ELSE e.step,
     pid    |-> e.pid \/ transient,
     time   |-> e.time \/ ~transient,
     err    |-> e.err \/ extra.err,
     stats  |-> e.stats \/ extra.stats]

\* a mutant of pop_oldest: the entries are removed from the newest end
pop_newest(hist, howmany) ==
    IF howmany <= 0 THEN hist
    ELSE SubSeq(hist, 1, IF Len(hist) > howmany THEN Len(hist) - howmany ELSE 0)

\* the $pop loop of lines 230-235: drop from the oldest end down to the bound
RECURSIVE pop_oldest(_, _)
pop_oldest(hist, howmany) ==
    IF howmany <= 0 \/ hist = <<>> THEN hist ELSE pop_oldest(Tail(hist), howmany - 1)

\* a mutant of register_status: the entries beyond the bound are not removed
register_status_noevict(doc, status, transient, init, extra) ==
    LET flag == IF status = "building" THEN FALSE ELSE doc.pending
    IN  IF init
        THEN [build |-> Append(doc.build, build_info(status, transient, extra)),
              pending |-> flag]
        ELSE [build |-> [doc.build EXCEPT ![Len(doc.build)] =
                             entry_update(@, status, transient, extra)],
              pending |-> flag]

\* a mutant of register_status: pending_to_build is not unset
register_status_keepflag(doc, status, transient, init, extra) ==
    IF init
    THEN LET pushed == Append(doc.build, build_info(status, transient, extra))
         IN  [build |-> IF Len(pushed) > max_build_status
                        THEN pop_oldest(pushed, Len(pushed) - max_build_status)
                        ELSE pushed,
              pending |-> doc.pending]
    ELSE [build |-> [doc.build EXCEPT ![Len(doc.build)] =
                         entry_update(@, status, transient, extra)],
          pending |-> doc.pending]

\* DataBuilder.register_status on the document doc = [build, pending] of a
\* builder constructed with max_build_status = maxb
register_status_of(maxb, doc, status, transient, init, extra) ==
    LET flag == IF status = "building" THEN FALSE ELSE doc.pending
    IN  IF init
        THEN LET pushed == Append(doc.build, build_info(status, transient, extra))
             IN  [build |-> IF Len(pushed) > maxb
                            THEN pop_oldest(pushed, Len(pushed) - maxb)
                            ELSE pushed,
                  pending |-> flag]
        ELSE [build |-> [doc.build EXCEPT ![Len(doc.build)] =
                             entry_update(@, status, transient, extra)],
              pending |-> flag]

\* register_status of the builders of configuration "c1"
register_status(doc, status, transient, init, extra) ==
    register_status_of(max_build_status, doc, status, transient, init, extra)

(***************************************************************************)
(* The target collection: for every _id the set of sources whose fields    *)
(* the document carries; the document exists iff the set is not empty.     *)
(***************************************************************************)
EmptyTarget == [i \in Ids |-> {}]
TargetIds(tgt) == {i \in Ids : tgt[i] # {}}

\* DocMongoBackend.update(docs, upsert) of merger_worker (line 584), with the
\* default transparent mapper: every document of the batch is merged into the
\* target document of the same _id, which is created only under upsert
target_update(tgt, src, ids, upsert) ==
    [i \in Ids |-> IF i \in ids /\ (upsert \/ tgt[i] # {}) THEN tgt[i] \cup {src} ELSE tgt[i]]

\* the count DocMongoBackend.update returns to merger_worker (line 584): the
\* documents of the batch it merged into the target
update_count(tgt, ids, upsert) == Cardinality({i \in ids : upsert \/ tgt[i] # {}})

(***************************************************************************)
(* iter_n(ids, batch_size) over the ids of a source (merge_source, lines   *)
(* 519-520): the merge batches, in order.                                  *)
(***************************************************************************)
\* a mutant of iter_n: a last batch shorter than n is not yielded
RECURSIVE iter_n_lossy(_, _)
iter_n_lossy(ids, n) ==
    IF Len(ids) < n THEN <<>>
    ELSE <<SubSeq(ids, 1, n)>> \o iter_n_lossy(SubSeq(ids, n + 1, Len(ids)), n)

RECURSIVE iter_n(_, _)
iter_n(ids, n) ==
    IF ids = <<>> THEN <<>>
    ELSE IF Len(ids) <= n THEN <<ids>>
    ELSE <<SubSeq(ids, 1, n)>> \o iter_n(SubSeq(ids, n + 1, Len(ids)), n)

Batches(src) == iter_n(SourceIds(src), batch_size)
NB(src) == Len(Batches(src))
MergeSrcs == {A, B}
BatchNums == 1..Len(SourceIds(A))


(***************************************************************************)
(* State.                                                                  *)
(***************************************************************************)
VARIABLES
    root_key,          \* build_config[doc_root_key]
    cols,              \* src_db.collection_names()
    build,             \* the configuration document's "build" history
    pending_to_build,  \* the configuration document's pending_to_build flag
    target,            \* the target collection
    merges,            \* the merges started: DataBuilder.merge's task and its source tasks and batch jobs
    nfaults,           \* faults and cancellations so far
    running_commands,  \* HubShell.running_commands
    cmd_cnt,           \* HubShell.cmd_cnt
    args,              \* the arguments of a direct call of a method, NoArgs when there is none
    ret,               \* what the call returned or raised, NotCalled before it
    confs,             \* the build configuration documents the manager serves, by _id
    natural,           \* the _ids in the order src_build.find() returns the documents
    log,               \* the merge calls of the manager's last poll tick or merge command
    tdb,               \* the target database: the state of each of its collections
    cfg,               \* a register_status call in progress: its arguments and the _cfg it has read
    chain              \* a chained command: the invocations of _and, their tasks, the functions called

\* the variables of the merge engine and of the shell
mvars == <<root_key, cols, build, pending_to_build, target, merges, nfaults,
           running_commands, cmd_cnt>>

\* the variables of the direct calls, of the manager and of the target
\* database
aside == <<args, ret, confs, natural, log, tdb, cfg, chain>>

vars == <<mvars, aside>>

NoArgs == [root |-> <<>>, srcs |-> <<>>, catalog |-> {}]
NotCalled == [called |-> FALSE, err |-> FALSE, val |-> <<>>]
NoCall == args = NoArgs /\ ret = NotCalled

NoLog == [kind |-> "none", calls |-> <<>>]
NoManager == confs = <<>> /\ natural = <<>> /\ log = NoLog
NoDb == tdb = <<>>

NoCfg == [pc |-> "idle", status |-> "-", transient |-> FALSE,
          extra |-> Extra(NoStep, FALSE, FALSE),
          doc |-> [build |-> <<>>, pending |-> FALSE]]
NoChain == [n |-> 0, inv |-> <<>>, st |-> <<>>, called |-> <<>>]
NoLocals == cfg = NoCfg /\ chain = NoChain

MergeIds == 1..MaxMerges

\* a merge_source task: st is its position ("none" not created, "run" in the
\* submission loop, "wait" on the gather of its batches, "ok" returned, "err"
\* raised, "cancelled"), next the bnum of the next batch, upsert, got_error
\* and cnt its local variables
IdleSrc == [st |-> "none", next |-> 1, upsert |-> FALSE, got_error |-> FALSE, cnt |-> 0]

\* a merge: phase is the position of the merge_sources task ("start" created,
\* "root"/"others" in the inner merge() of that class, "post" waiting for the
\* post-merge job, "done"), result the outcome of the task, stored the status
\* its store_stats callback has written ("no": not run yet), stats the
\* entries of self.stats, batch the state of every batch job of a source and
\* count the value its worker returned, steps the steps argument of
\* merge_sources
IdleRec ==
    [phase |-> "idle", result |-> "none", stored |-> "no", full |-> FALSE, steps |-> {},
     source_names |-> {}, root_sources |-> <<>>, other_sources |-> <<>>,
     launched |-> 0, got_error |-> FALSE, finalized |-> FALSE, stats |-> {},
     src |-> [s \in MergeSrcs |-> IdleSrc],
     batch |-> [s \in MergeSrcs |-> [b \in BatchNums |-> "unsub"]],
     count |-> [s \in MergeSrcs |-> [b \in BatchNums |-> 0]]]

TaskDone(r) == r.result \in {"ok", "exc", "cancelled"}
SrcRunning(r, s) == r.src[s].st \in {"run", "wait"}
BatchRunning(r, s) == \E b \in BatchNums : r.batch[s][b] = "running"

\* nothing of the merge is left: its task and callback are over and no source
\* task or batch job of it runs; only the task's outcome is kept from then on
Over(r) ==
    /\ TaskDone(r)
    /\ r.stored # "no"
    /\ \A s \in MergeSrcs : ~SrcRunning(r, s) /\ ~BatchRunning(r, s)

Norm(r) ==
    IF Over(r)
    THEN [IdleRec EXCEPT !.phase = "done", !.result = r.result, !.stored = r.stored]
    ELSE r

Doc == [build |-> build, pending |-> pending_to_build]

SetDoc(d) == build' = d.build /\ pending_to_build' = d.pending

DefinedRoots == get_root_document_sources(root_key, ConfigSources, cols)

Init ==
    /\ \E c \in Configs : root_key = c.root /\ cols = c.cols
    /\ build = <<>>
    /\ pending_to_build = FALSE
    /\ target = EmptyTarget
    /\ merges = [m \in MergeIds |-> IdleRec]
    /\ nfaults = 0
    /\ running_commands = {}
    /\ cmd_cnt = 1
    /\ NoLocals
    /\ NoCall
    /\ NoManager
    /\ NoDb

(***************************************************************************)
(* DataBuilder.merge(sources, force) up to the creation of the task (lines *)
(* 334-365) on a configuration document doc, its target tgt and its        *)
(* configured sources avail; ready tells whether every configured source   *)
(* has an upload job with status "success" (check_ready, lines 178-194).   *)
(* The result names the exception raised ("no": none), the target and the  *)
(* document as the call leaves them and the sources resolved.              *)
(***************************************************************************)
check_ready(ready, force) == force \/ ready

\* the default of merge_sources' steps argument (line 392)
DefaultSteps == {"merge", "post"}

builder_merge(doc, tgt, catalog, avail, sources, ready, force) ==
    IF ~check_ready(ready, force)
    THEN [raised |-> "ResourceNotReady", target |-> tgt, doc |-> doc, names |-> {}]
    ELSE LET dropped  == IF sources = None THEN EmptyTarget ELSE tgt
             asked    == IF sources = None THEN avail ELSE <<sources>>
             resolved == resolve_sources(asked, catalog)
         IN  IF resolved.err \/ resolved.val = <<>>
             THEN [raised |-> "BuilderException", target |-> dropped, doc |-> doc, names |-> {}]
             ELSE [raised |-> "no", target |-> dropped,
                   doc |-> register_status(doc, "building", TRUE, TRUE,
                                           Extra("init", FALSE, FALSE)),
                   names |-> Range(resolved.val)]

\* the call on configuration "c1", whose sources are uploaded: [raised,
\* target, doc, rec], rec the record of the merge started
DataBuilder_merge(sources) ==
    LET e == builder_merge(Doc, target, cols, ConfigSources, sources, TRUE, FALSE)
    IN  [raised |-> e.raised # "no", target |-> e.target, doc |-> e.doc,
         rec |-> IF e.raised # "no" THEN IdleRec
                 ELSE [IdleRec EXCEPT !.phase = "start", !.result = "pending",
                                      !.steps = DefaultSteps,
                                      !.full = (sources = None),
                                      !.source_names = e.names]]

FreeIds == {m \in MergeIds : merges[m].phase = "idle"}
NextId == CHOOSE m \in FreeIds : \A n \in FreeIds : m <= n

(***************************************************************************)
(* HubShell.eval and register_command.                                     *)
(***************************************************************************)
\* a mutant of Reported: every command is popped, finished or not
Reported_eager(rc, ms) == {c \in rc : FALSE}

\* lines 173-189: the finished commands are popped, unless j.exception() of a
\* cancelled job raises CancelledError out of the loop
Reported(rc, ms) ==
    IF \E c \in rc : ms[c.job].result = "cancelled"
    THEN rc
    ELSE {c \in rc : ~TaskDone(ms[c.job])}

AlreadyRunning(line) == line \in {c.cmd : c \in running_commands}

\* eval of a merge command that is accepted and whose merge() returns a
\* task, the command passing steps on to merge_sources (through **kwargs of
\* BuilderManager.merge and DataBuilder.merge)
EvalMergeSteps(line, steps) ==
    /\ ~AlreadyRunning(line)
    /\ FreeIds # {}
    /\ LET e == DataBuilder_merge(LineSources(line))
           m == NextId
           ms == [merges EXCEPT ![m] = [e.rec EXCEPT !.steps = steps]]
       IN  /\ ~e.raised
           /\ target' = e.target
           /\ SetDoc(e.doc)
           /\ merges' = ms
           /\ running_commands' =
                  Reported(running_commands \cup {[num |-> cmd_cnt, cmd |-> line, job |-> m]}, ms)
           /\ cmd_cnt' = cmd_cnt + 1
    /\ UNCHANGED <<aside, root_key, cols, nfaults>>

\* eval of a merge command that leaves steps to its default
EvalMerge(line) == EvalMergeSteps(line, DefaultSteps)

\* eval of a line that is already running: AlreadyRunningException
EvalRejected(line) ==
    /\ AlreadyRunning(line)
    /\ UNCHANGED vars

\* eval of a command that returns no task (whatsnew(), help()): only the
\* report of the finished commands changes the state
EvalQuery ==
    /\ running_commands' = Reported(running_commands, merges)
    /\ UNCHANGED <<aside, root_key, cols, build, pending_to_build, target, merges, nfaults, cmd_cnt>>

(***************************************************************************)
(* set_pending_to_build and one tick of BuilderManager.poll.               *)
(***************************************************************************)
SetPending ==
    /\ ~pending_to_build
    /\ pending_to_build' = TRUE
    /\ UNCHANGED <<aside, root_key, cols, build, target, merges, nfaults, running_commands, cmd_cnt>>

PollTick ==
    /\ pending_to_build
    /\ FreeIds # {}
    /\ LET e == DataBuilder_merge(None)
       IN  /\ ~e.raised
           /\ target' = e.target
           /\ SetDoc(e.doc)
           /\ merges' = [merges EXCEPT ![NextId] = e.rec]
    /\ UNCHANGED <<aside, root_key, cols, nfaults, running_commands, cmd_cnt>>


(***************************************************************************)
(* The merge_sources task (lines 391-485), one action per run of the       *)
(* coroutine between two suspension points.                                *)
(***************************************************************************)
SetMerge(m, r) == merges' = [merges EXCEPT ![m] = Norm(r)]

StepStatus(step) == register_status(Doc, "building", TRUE, FALSE, Extra(step, FALSE, FALSE))

\* the sources of the inner merge() the task is in
Cur(r) == IF r.phase = "root" THEN r.root_sources
          ELSE IF r.phase = "others" THEN r.other_sources ELSE <<>>

\* first run: lines 398-429, up to the sleep(0.0) of the first inner merge()
MS_Start(m) ==
    LET r == merges[m]
        roots == DefinedRoots
        rs == Sorted(r.source_names \cap Range(roots.val))
        os == Sorted(r.source_names \ Range(rs))
    IN  /\ r.phase = "start"
        /\ r.result = "pending"
        /\ IF roots.err
           THEN /\ SetMerge(m, [r EXCEPT !.phase = "done", !.result = "exc"])
                /\ UNCHANGED <<build, pending_to_build>>
           ELSE IF "merge" \in r.steps
           THEN /\ SetDoc(StepStatus(IF rs # <<>> THEN "merge-root" ELSE "merge-others"))
                /\ SetMerge(m, [r EXCEPT !.phase = IF rs # <<>> THEN "root" ELSE "others",
                                          !.root_sources = rs, !.other_sources = os,
                                          !.launched = 0])
           ELSE IF "post" \in r.steps
           THEN \* lines 466-475: "Skip data merging", then the post-merge job
                /\ SetDoc(StepStatus("post-merge"))
                /\ SetMerge(m, [r EXCEPT !.phase = "post",
                                          !.root_sources = rs, !.other_sources = os])
           ELSE \* lines 466-485: nothing to do, the task returns self.stats
                /\ SetMerge(m, [r EXCEPT !.phase = "done", !.result = "ok"])
                /\ UNCHANGED <<build, pending_to_build>>
        /\ UNCHANGED <<aside, root_key, cols, target, nfaults, running_commands, cmd_cnt>>

\* inner merge(), lines 429-445: after sleep(0.0), the merge_source task of
\* the next source is created, then got_error is looked at
MS_Launch(m) ==
    LET r == merges[m]
        s == Cur(r)[r.launched + 1]
        started == [r EXCEPT !.src[s] = [st |-> "run", next |-> 1,
                                         upsert |-> Upsert(DefinedRoots.val, s),
                                         got_error |-> FALSE, cnt |-> 0]]
    IN  /\ r.phase \in {"root", "others"}
        /\ r.result = "pending"
        /\ r.launched < Len(Cur(r))
        /\ IF r.got_error
           THEN SetMerge(m, [started EXCEPT !.phase = "done", !.result = "exc"])
           ELSE SetMerge(m, [started EXCEPT !.launched = r.launched + 1])
        /\ UNCHANGED <<aside, root_key, cols, build, pending_to_build, target, nfaults,
                       running_commands, cmd_cnt>>

Gathering(r) ==
    /\ r.phase \in {"root", "others"}
    /\ r.result = "pending"
    /\ r.launched = Len(Cur(r))

\* a mutant of PhaseComplete: the inner merge() does not wait for its tasks
PhaseComplete_nowait(r) == TRUE

\* lines 446-447: asyncio.gather(*jobs) has the result of every source task
PhaseComplete(r) == \A s \in Range(Cur(r)) : r.src[s].st = "ok"

\* the inner merge() returns: lines 456-475, up to the next suspension point
MS_GatherOk(m) ==
    LET r == merges[m]
    IN  /\ Gathering(r)
        /\ PhaseComplete(r)
        /\ IF r.phase = "root" /\ r.other_sources # <<>>
           THEN /\ SetDoc(StepStatus("merge-others"))
                /\ SetMerge(m, [r EXCEPT !.phase = "others", !.launched = 0])
           ELSE IF "post" \in r.steps
           THEN /\ SetDoc(LET d == StepStatus("finalizing")
                          IN  register_status(d, "building", TRUE, FALSE,
                                              Extra("post-merge", FALSE, FALSE)))
                /\ SetMerge(m, [r EXCEPT !.phase = "post", !.finalized = TRUE])
           ELSE \* lines 482-485: "Skip post-merge process", the task returns
                /\ SetDoc(StepStatus("finalizing"))
                /\ SetMerge(m, [r EXCEPT !.phase = "done", !.result = "ok",
                                          !.finalized = TRUE])
        /\ UNCHANGED <<aside, root_key, cols, target, nfaults, running_commands, cmd_cnt>>

\* the gather raises the exception of a source task: the task ends with it
MS_GatherFail(m) ==
    LET r == merges[m]
    IN  /\ Gathering(r)
        /\ \E s \in Range(Cur(r)) : r.src[s].st = "err"
        /\ SetMerge(m, [r EXCEPT !.phase = "done", !.result = "exc"])
        /\ UNCHANGED <<aside, root_key, cols, build, pending_to_build, target, nfaults,
                       running_commands, cmd_cnt>>

\* lines 475-485: the post-merge job ends, by returning (the task returns
\* self.stats) or by raising
PostDone(m, raises) ==
    LET r == merges[m]
    IN  /\ r.phase = "post"
        /\ r.result = "pending"
        /\ raises => nfaults < MaxFaults
        /\ nfaults' = IF raises THEN nfaults + 1 ELSE nfaults
        /\ SetMerge(m, [r EXCEPT !.phase = "done",
                                 !.result = IF raises THEN "exc" ELSE "ok"])
        /\ UNCHANGED <<aside, root_key, cols, build, pending_to_build, target,
                       running_commands, cmd_cnt>>

\* the operator cancels the task returned by merge(): CancelledError is thrown
\* into merge_sources; a gather it waits on cancels its source tasks
Cancel(m) ==
    LET r == merges[m]
        children == IF Gathering(r) THEN {s \in Range(Cur(r)) : SrcRunning(r, s)} ELSE {}
    IN  /\ r.result = "pending"
        /\ nfaults < MaxFaults
        /\ nfaults' = nfaults + 1
        /\ SetMerge(m, [r EXCEPT !.phase = "done", !.result = "cancelled",
                                 !.src = [s \in MergeSrcs |->
                                             IF s \in children
                                             THEN [r.src[s] EXCEPT !.st = "cancelled"]
                                             ELSE r.src[s]]])
        /\ UNCHANGED <<aside, root_key, cols, build, pending_to_build, target,
                       running_commands, cmd_cnt>>

\* DataBuilder.store_stats(f), lines 292-301: the status it registers; f is not
\* looked at, "failed" is registered when post_merge(), get_src_versions() or
\* register_status raise
store_stats_status(result, raises) == IF raises THEN "failed" ELSE "success"

\* the done-callback of the task
StoreStats(m, raises) ==
    LET r == merges[m]
        status == store_stats_status(r.result, raises)
    IN  /\ TaskDone(r)
        /\ r.stored = "no"
        /\ raises => nfaults < MaxFaults
        /\ nfaults' = IF raises THEN nfaults + 1 ELSE nfaults
        /\ SetDoc(register_status(Doc, status, FALSE, FALSE,
                                  Extra(NoStep, status = "failed", status = "success")))
        /\ SetMerge(m, [r EXCEPT !.stored = status])
        /\ UNCHANGED <<aside, root_key, cols, target, running_commands, cmd_cnt>>

(***************************************************************************)
(* A merge_source task (lines 490-564) and its batch jobs (merger_worker). *)
(***************************************************************************)
\* lines 523-548: after sleep(0.1), the next batch is submitted, then
\* got_error is looked at; the loop ends on the gather of the batches
SubmitBatch(m, s) ==
    LET r == merges[m]
        b == r.src[s].next
        sub == [r EXCEPT !.batch[s][b] = "running",
                         !.src[s].cnt = @ + Len(Batches(s)[b])]
    IN  /\ r.src[s].st = "run"
        /\ IF r.src[s].got_error
           THEN SetMerge(m, [sub EXCEPT !.src[s].st = "err", !.got_error = TRUE])
           ELSE IF b = NB(s)
                THEN SetMerge(m, [sub EXCEPT !.src[s].st = "wait"])
                ELSE SetMerge(m, [sub EXCEPT !.src[s].next = b + 1])
        /\ UNCHANGED <<aside, root_key, cols, build, pending_to_build, target, nfaults,
                       running_commands, cmd_cnt>>

\* a batch job ends: "ok" it wrote and returned its count, "bad" it wrote and
\* returned a value that is no int (batch_merged sets got_error), "exc" the
\* worker raised (batch_merged's f.result() raises, got_error stays)
BatchDone(m, s, b, outcome) ==
    LET r == merges[m]
    IN  /\ r.batch[s][b] = "running"
        /\ outcome # "ok" => nfaults < MaxFaults
        /\ nfaults' = IF outcome # "ok" THEN nfaults + 1 ELSE nfaults
        /\ target' = IF outcome = "exc" THEN target
                     ELSE target_update(target, s, Range(Batches(s)[b]), r.src[s].upsert)
        /\ SetMerge(m, [r EXCEPT !.batch[s][b] = outcome,
                                 !.count[s][b] =
                                     IF outcome = "ok"
                                     THEN update_count(target, Range(Batches(s)[b]), r.src[s].upsert)
                                     ELSE 0,
                                 !.src[s].got_error = (@ \/ outcome = "bad")])
        /\ UNCHANGED <<aside, root_key, cols, build, pending_to_build, running_commands, cmd_cnt>>

\* "total_%s" % src_name (line 564)
total_key(src_name) == <<"t", "o", "t", "a", "l", "_">> \o src_name

\* lines 550-564 and the merged callback (433-441): the gather of the batches
\* raises the exception of a batch, or has every result; the task returns
\* {"total_<src_name>": cnt}, cnt the ids counted by the submission loop (the
\* sum computed in done() is local to done()), which merged() adds to self.stats
SrcFinish(m, s) ==
    LET r == merges[m]
        raised == \E b \in 1..NB(s) : r.batch[s][b] = "exc"
        alldone == \A b \in 1..NB(s) : r.batch[s][b] \in {"ok", "bad"}
    IN  /\ r.src[s].st = "wait"
        /\ raised \/ alldone
        /\ IF raised \/ r.src[s].got_error
           THEN SetMerge(m, [r EXCEPT !.src[s].st = "err", !.got_error = TRUE])
           ELSE SetMerge(m, [r EXCEPT !.src[s].st = "ok",
                                      !.stats = @ \cup {[key |-> total_key(s),
                                                         cnt |-> r.src[s].cnt]}])
        /\ UNCHANGED <<aside, root_key, cols, build, pending_to_build, target, nfaults,
                       running_commands, cmd_cnt>>

(***************************************************************************)
(* Spec: the hub with a disciplined environment. The operator and the poll *)
(* tick start a merge of the configuration, and the configuration is       *)
(* flagged pending, only once the store_stats callback of every earlier    *)
(* merge has run (the history shows a terminal status); batch workers,    *)
(* the post-merge job and store_stats may fail and the operator may        *)
(* cancel, within MaxFaults.                                               *)
(***************************************************************************)
Started == MergeIds \ FreeIds

Sequential == \A m \in Started : merges[m].stored # "no"

\* the operator of Spec keeps to one spelling of each command
PlainLines == {"merge('c1')", "merge('c1','b')"}

Next ==
    \/ \E line \in PlainLines : Sequential /\ EvalMerge(line)
    \/ \E line \in PlainLines : EvalRejected(line)
    \/ EvalQuery
    \/ Sequential /\ SetPending
    \/ Sequential /\ PollTick
    \/ \E m \in MergeIds : MS_Start(m)
    \/ \E m \in MergeIds : MS_Launch(m)
    \/ \E m \in MergeIds : MS_GatherOk(m)
    \/ \E m \in MergeIds : MS_GatherFail(m)
    \/ \E m \in MergeIds, raises \in BOOLEAN : PostDone(m, raises)
    \/ \E m \in MergeIds : Cancel(m)
    \/ \E m \in MergeIds, raises \in BOOLEAN : StoreStats(m, raises)
    \/ \E m \in MergeIds, s \in MergeSrcs : SubmitBatch(m, s)
    \/ \E m \in MergeIds, s \in MergeSrcs, b \in BatchNums :
           \E outcome \in {"ok", "bad", "exc"} : BatchDone(m, s, b, outcome)
    \/ \E m \in MergeIds, s \in MergeSrcs : SrcFinish(m, s)

Spec == Init /\ [][Next]_vars

(***************************************************************************)
(* SpecHub: the hub as the code leaves it, without that discipline: any    *)
(* accepted command line and any poll tick starts a merge, up to HubMerges *)
(* merges; no fault is injected.                                           *)
(***************************************************************************)
HubMerges == 2

HubBound == Cardinality(Started) < HubMerges

NextHub ==
    \/ \E line \in Lines : HubBound /\ EvalMerge(line)
    \/ \E line \in Lines : EvalRejected(line)
    \/ EvalQuery
    \/ SetPending
    \/ HubBound /\ PollTick
    \/ \E m \in MergeIds : MS_Start(m)
    \/ \E m \in MergeIds : MS_Launch(m)
    \/ \E m \in MergeIds : MS_GatherOk(m)
    \/ \E m \in MergeIds : PostDone(m, FALSE)
    \/ \E m \in MergeIds : StoreStats(m, FALSE)
    \/ \E m \in MergeIds, s \in MergeSrcs : SubmitBatch(m, s)
    \/ \E m \in MergeIds, s \in MergeSrcs, b \in BatchNums : BatchDone(m, s, b, "ok")
    \/ \E m \in MergeIds, s \in MergeSrcs : SrcFinish(m, s)

SpecHub == Init /\ [][NextHub]_vars


(***************************************************************************)
(* SpecSteps: one merge command of "c1" for every value of the steps       *)
(* argument ("merge" and "post", one of them, none), with the faults of    *)
(* Spec.                                                                   *)
(***************************************************************************)
NextSteps ==
    \/ \E line \in PlainLines, steps \in SUBSET DefaultSteps :
           Started = {} /\ EvalMergeSteps(line, steps)
    \/ \E m \in MergeIds : MS_Start(m)
    \/ \E m \in MergeIds : MS_Launch(m)
    \/ \E m \in MergeIds : MS_GatherOk(m)
    \/ \E m \in MergeIds : MS_GatherFail(m)
    \/ \E m \in MergeIds, raises \in BOOLEAN : PostDone(m, raises)
    \/ \E m \in MergeIds : Cancel(m)
    \/ \E m \in MergeIds, raises \in BOOLEAN : StoreStats(m, raises)
    \/ \E m \in MergeIds, s \in MergeSrcs : SubmitBatch(m, s)
    \/ \E m \in MergeIds, s \in MergeSrcs, b \in BatchNums :
           \E outcome \in {"ok", "bad", "exc"} : BatchDone(m, s, b, outcome)
    \/ \E m \in MergeIds, s \in MergeSrcs : SrcFinish(m, s)

SpecSteps == Init /\ [][NextSteps]_vars


(***************************************************************************)
(* SpecCalls: direct calls of get_root_document_sources, for every root    *)
(* list of up to MaxRootLen entries, over several configured source lists  *)
(* and live catalogs.                                                      *)
(***************************************************************************)
MaxRootLen == 2

RootEntries == {A, B, X, NotA, NotB, NotX, Bang}

RECURSIVE SeqsUpTo(_, _)
SeqsUpTo(S, n) ==
    IF n = 0 THEN {<<>>}
    ELSE LET shorter == SeqsUpTo(S, n - 1)
         IN  shorter \cup {Append(q, e) : q \in shorter, e \in S}

Literals == {A, B, C, D, X, Y, Z}

CallInputs ==
    [root : SeqsUpTo(RootEntries, MaxRootLen),
     srcs : {<<A, B>>, <<A, B, C, D>>, <<X, Y, Z>>},
     catalog : {Literals, {A, B}, {B, C, CHR1}}]

InitCalls ==
    /\ root_key = <<>>
    /\ cols = {}
    /\ build = <<>>
    /\ pending_to_build = FALSE
    /\ target = EmptyTarget
    /\ merges = [m \in MergeIds |-> IdleRec]
    /\ nfaults = 0
    /\ running_commands = {}
    /\ cmd_cnt = 1
    /\ NoLocals
    /\ args \in CallInputs
    /\ ret = NotCalled
    /\ NoManager
    /\ NoDb

Call_get_root_document_sources ==
    /\ ~ret.called
    /\ ret' = [called |-> TRUE] @@ get_root_document_sources(args.root, args.srcs, args.catalog)
    /\ UNCHANGED <<mvars, tdb, cfg, chain, args, confs, natural, log>>

NextCalls == Call_get_root_document_sources

SpecCalls == InitCalls /\ [][NextCalls]_vars


(***************************************************************************)
(* SpecManager: BuilderManager over two build configurations "p1" and      *)
(* "p2": set_pending_to_build, the poll tick (check_pending_to_build runs  *)
(* without suspension, so a tick is one step) and the merge command, each  *)
(* up to the creation of the merge tasks; the tasks themselves are those   *)
(* of Spec. The uploads of a configuration's sources may complete.         *)
(***************************************************************************)
P1 == <<"p", "1">>
P2 == <<"p", "2">>
ConfNames == {P1, P2}

\* build_config["sources"] of each configuration
ConfSources(n) == IF n = P1 THEN <<A, B>> ELSE <<X, Y>>

\* a target left by an earlier build
FilledTarget == [i \in Ids |-> IF i \in {1, 2, 3} THEN {A} ELSE {}]

\* the order of Python's str comparison, for the characters of the names
Alphabet == <<"1", "2", "3", "_", "c", "e", "n", "p", "r", "t", "u">>
CharRank(c) == CHOOSE i \in 1..Len(Alphabet) : Alphabet[i] = c

RECURSIVE LexLess(_, _)
LexLess(a, b) ==
    IF b = <<>> THEN FALSE
    ELSE IF a = <<>> THEN TRUE
    ELSE IF a[1] # b[1] THEN CharRank(a[1]) < CharRank(b[1])
    ELSE LexLess(Tail(a), Tail(b))

InitManager ==
    /\ root_key = <<>>
    /\ cols \in {{A, B, X, Y}, {A, B}}
    /\ build = <<>>
    /\ pending_to_build = FALSE
    /\ target = EmptyTarget
    /\ merges = [m \in MergeIds |-> IdleRec]
    /\ nfaults = 0
    /\ running_commands = {}
    /\ cmd_cnt = 1
    /\ NoLocals
    /\ NoCall
    /\ confs \in [ConfNames -> [pending : {FALSE}, ready : BOOLEAN, build : {<<>>},
                                 target : {EmptyTarget, FilledTarget}]]
    /\ natural \in {<<P1, P2>>, <<P2, P1>>}
    /\ log = NoLog
    /\ NoDb

\* BuilderManager.merge(n, force=force) on the documents cs: the call as
\* logged, and the documents after it
manager_merge(cs, n, force) ==
    LET c == cs[n]
        e == builder_merge([build |-> c.build, pending |-> c.pending], c.target, cols,
                           ConfSources(n), None, c.ready, force)
    IN  [call |-> [name |-> n, force |-> force, raised |-> e.raised],
         confs |-> [cs EXCEPT ![n] = [pending |-> e.doc.pending, ready |-> c.ready,
                                      build |-> e.doc.build, target |-> e.target]]]

\* the loop of check_pending_to_build (lines 734-741) over the pending
\* configurations todo: an exception of merge is logged and raised again,
\* which ends the tick
RECURSIVE check_pending_to_build(_, _, _)
check_pending_to_build(cs, todo, calls) ==
    IF todo = <<>> THEN [confs |-> cs, calls |-> calls]
    ELSE LET r == manager_merge(cs, Head(todo), FALSE)
         IN  IF r.call.raised # "no"
             THEN [confs |-> r.confs, calls |-> Append(calls, r.call)]
             ELSE check_pending_to_build(r.confs, Tail(todo), Append(calls, r.call))

ManagerSetPending(n) ==
    /\ confs' = [confs EXCEPT ![n].pending = TRUE]
    /\ UNCHANGED <<mvars, tdb, cfg, chain, args, ret, natural, log>>

\* an upload of the last missing source of configuration n ends with success
ManagerUploaded(n) ==
    /\ ~confs[n].ready
    /\ confs' = [confs EXCEPT ![n].ready = TRUE]
    /\ UNCHANGED <<mvars, tdb, cfg, chain, args, ret, natural, log>>

\* one tick: line 732, the pending configurations in the order find() gives
ManagerPoll ==
    LET todo == SelectSeq(natural, LAMBDA n : confs[n].pending)
        r == check_pending_to_build(confs, todo, <<>>)
    IN  /\ confs' = r.confs
        /\ log' = [kind |-> "tick", calls |-> r.calls]
        /\ UNCHANGED <<mvars, tdb, cfg, chain, args, ret, natural>>

\* the operator's merge command of configuration n
ManagerMerge(n, force) ==
    LET r == manager_merge(confs, n, force)
    IN  /\ confs' = r.confs
        /\ log' = [kind |-> "merge", calls |-> <<r.call>>]
        /\ UNCHANGED <<mvars, tdb, cfg, chain, args, ret, natural>>

NextManager ==
    \/ \E n \in ConfNames : ManagerSetPending(n)
    \/ \E n \in ConfNames : ManagerUploaded(n)
    \/ ManagerPoll
    \/ \E n \in ConfNames, force \in BOOLEAN : ManagerMerge(n, force)

SpecManager == InitManager /\ [][NextManager]_vars


(***************************************************************************)
(* SpecResolve: direct calls of resolve_sources, for every list of up to   *)
(* MaxSrcLen sources over several live catalogs, followed by a call on the *)
(* list the first call returned.                                           *)
(***************************************************************************)
MaxSrcLen == 2

CHR2 == <<"c", "h", "r", "_", "2">>
CHRMT == <<"c", "h", "r", "_", "M", "T">>
Other == <<"o", "t", "h", "e", "r">>
\* a name without master record
W == <<"w">>

ResolveInputs ==
    [sources : SeqsUpTo({A, B, CHR, CHR1, W}, MaxSrcLen),
     catalog : {{A, B}, {B}, {CHR1, CHR2, CHRMT, Other}, {A, CHR1, CHR2, CHRMT, Other}}]

InitResolve ==
    /\ root_key = <<>>
    /\ cols = {}
    /\ build = <<>>
    /\ pending_to_build = FALSE
    /\ target = EmptyTarget
    /\ merges = [m \in MergeIds |-> IdleRec]
    /\ nfaults = 0
    /\ running_commands = {}
    /\ cmd_cnt = 1
    /\ NoLocals
    /\ args \in ResolveInputs
    /\ ret = NotCalled
    /\ NoManager
    /\ NoDb

Call_resolve_sources ==
    /\ ~ret.called
    /\ ret' = [called |-> TRUE] @@ resolve_sources(args.sources, args.catalog)
    /\ UNCHANGED <<mvars, tdb, cfg, chain, args, confs, natural, log>>

\* resolve_sources on the list the first call returned
Call_resolve_sources_again ==
    /\ ret.called /\ ~ret.err
    /\ log = NoLog
    /\ log' = [kind |-> "again", calls |-> <<resolve_sources(ret.val, args.catalog)>>]
    /\ UNCHANGED <<mvars, tdb, cfg, chain, args, ret, confs, natural>>

NextResolve == Call_resolve_sources \/ Call_resolve_sources_again

SpecResolve == InitResolve /\ [][NextResolve]_vars


(***************************************************************************)
(* SpecStatus: register_status("building", transient, init) as called at   *)
(* the start of a merge, on every history of up to MaxHist entries left by *)
(* earlier merges and for every max_build_status up to MaxHist, followed   *)
(* by the terminal register_status of store_stats.                         *)
(***************************************************************************)
MaxHist == 3

\* entries earlier merges have left: ended "success", ended "failed", and
\* one a builder that died has left "building"
OldEntries ==
    { entry_update(build_info("building", TRUE, Extra("post-merge", FALSE, FALSE)),
                   "success", FALSE, Extra(NoStep, FALSE, TRUE)),
      entry_update(build_info("building", TRUE, Extra("merge-root", FALSE, FALSE)),
                   "failed", FALSE, Extra(NoStep, TRUE, FALSE)),
      build_info("building", TRUE, Extra("merge-others", FALSE, FALSE)) }

StatusInputs ==
    [maxb : 1..MaxHist,
     doc : [build : SeqsUpTo(OldEntries, MaxHist), pending : BOOLEAN]]

InitStatus ==
    /\ root_key = <<>>
    /\ cols = {}
    /\ build = <<>>
    /\ pending_to_build = FALSE
    /\ target = EmptyTarget
    /\ merges = [m \in MergeIds |-> IdleRec]
    /\ nfaults = 0
    /\ running_commands = {}
    /\ cmd_cnt = 1
    /\ NoLocals
    /\ args \in StatusInputs
    /\ ret = NotCalled
    /\ NoManager
    /\ NoDb

\* DataBuilder.merge, lines 359-360
Call_register_status_init ==
    /\ ~ret.called
    /\ ret' = [called |-> TRUE, err |-> FALSE,
               val |-> register_status_of(args.maxb, args.doc, "building", TRUE, TRUE,
                                          Extra("init", FALSE, FALSE))]
    /\ UNCHANGED <<mvars, tdb, cfg, chain, args, confs, natural, log>>

\* DataBuilder.store_stats, lines 296 and 299, on the document the first
\* call left
Call_register_status_terminal(status) ==
    /\ ret.called
    /\ log = NoLog
    /\ log' = [kind |-> "terminal",
               calls |-> <<register_status_of(args.maxb, ret.val, status, FALSE, FALSE,
                                              Extra(NoStep, status = "failed",
                                                    status = "success"))>>]
    /\ UNCHANGED <<mvars, tdb, cfg, chain, args, ret, confs, natural>>

NextStatus ==
    \/ Call_register_status_init
    \/ \E status \in {"success", "failed"} : Call_register_status_terminal(status)

SpecStatus == InitStatus /\ [][NextStatus]_vars


(***************************************************************************)
(* SpecDb: the target database under DataBuilder.merge (lines 339-355: the *)
(* drop and prepare of the target, set_target_name, clean_old_collections) *)
(* and the batch writes that follow, under a direct call of                *)
(* clean_old_collections and under BuilderManager.clean_temp_collections.  *)
(* A collection is "absent", "empty" (prepared, no document) or holds      *)
(* "docs". Collection names are sequences of characters; a date is one     *)
(* digit.                                                                  *)
(***************************************************************************)
\* DataBuilder.keep_archive (10 in the class), taken small so that
\* collections beyond it exist
keep_archive == 2

BuildName == <<"c", "1">>
Current == <<"c", "u", "r", "r", "e", "n", "t">>
\* a target_name the operator passes
T == <<"t">>
\* the name the target backend generates when no target_name is set: build
\* name, "_", timestamped suffix (today is date 3)
GeneratedName == BuildName \o <<"_", "3">>

\* another build configuration, named "c1_1", and the collections builds of
\* configurations other than "c1" have produced: one of "c1_1", one of "c2"
OtherBuildName == BuildName \o <<"_", "1">>
ForeignCols == { OtherBuildName \o <<"_", "1">>, <<"c", "2", "_", "1">> }

TargetCols ==
    { BuildName \o <<"_", "1">>, BuildName \o <<"_", "2">>, GeneratedName,
      BuildName \o <<"_">> \o Current,
      <<"p", "_">> \o BuildName \o <<"_", "1">>, T, T \o <<"_", "1">> } \cup ForeignCols

Existing(db) == {c \in TargetCols : db[c] # "absent"}

\* str.startswith
startswith(s, prefix) == Len(s) >= Len(prefix) /\ SubSeq(s, 1, Len(prefix)) = prefix

\* the in operator on strings
contains(s, sub) ==
    \E i \in 1..(Len(s) - Len(sub) + 1) : SubSeq(s, i, i + Len(sub) - 1) = sub

\* re.compile(pat).match(s): the pattern matches at the start of s
RECURSIVE re_match(_, _)
re_match(pat, s) ==
    IF pat = <<>> THEN TRUE
    ELSE IF Len(pat) >= 2 /\ pat[2] = "*"
         THEN \/ re_match(Tail(Tail(pat)), s)
              \/ (s # <<>> /\ CharMatch(pat[1], s[1]) /\ re_match(pat, Tail(s)))
         ELSE s # <<>> /\ CharMatch(pat[1], s[1]) /\ re_match(Tail(pat), Tail(s))

\* sorted(cols, reverse=True)
RECURSIVE sorted_reverse(_)
sorted_reverse(S) ==
    IF S = {} THEN <<>>
    ELSE LET top == CHOOSE c \in S : \A d \in S \ {c} : LexLess(d, c)
         IN  <<top>> \o sorted_reverse(S \ {top})

\* sorted(cols)
RECURSIVE sorted_plain(_)
sorted_plain(S) ==
    IF S = {} THEN <<>>
    ELSE LET low == CHOOSE c \in S : \A d \in S \ {c} : LexLess(c, d)
         IN  <<low>> \o sorted_plain(S \ {low})

drop_all(db, names) == [c \in TargetCols |-> IF c \in names THEN "absent" ELSE db[c]]

\* a mutant of clean_old_collections: the sort is not reversed
clean_old_collections_oldest(db, target_name) ==
    LET prefix  == (IF target_name # None THEN target_name ELSE BuildName) \o <<"_">>
        sorted  == sorted_plain({c \in Existing(db) : startswith(c, prefix)})
        to_drop == SubSeq(sorted, keep_archive + 1, Len(sorted))
    IN  drop_all(db, Range(to_drop))

\* DataBuilder.clean_old_collections of a builder whose self.target_name is
\* target_name (None when not set)
clean_old_collections(db, target_name) ==
    LET prefix  == (IF target_name # None THEN target_name ELSE BuildName) \o <<"_">>
        sorted  == sorted_reverse({c \in Existing(db) : startswith(c, prefix)})
        to_drop == SubSeq(sorted, keep_archive + 1, Len(sorted))
    IN  drop_all(db, Range(to_drop))

\* the pattern of clean_temp_collections (lines 718-720); an absent date or
\* prefix is the empty string
temp_search(build_name, date, prefix) ==
    (IF prefix # <<>> THEN prefix \o <<"_">> ELSE <<>>)
        \o build_name \o <<"_">>
        \o (IF date # <<>> THEN date \o <<"_">> ELSE <<>>)

\* a mutant of clean_temp_collections: names holding "current" are dropped too
clean_temp_collections_nocurrent(db, build_name, date, prefix) ==
    drop_all(db, {c \in Existing(db) : re_match(temp_search(build_name, date, prefix), c)})

\* BuilderManager.clean_temp_collections
clean_temp_collections(db, build_name, date, prefix) ==
    drop_all(db, {c \in Existing(db) :
                     /\ re_match(temp_search(build_name, date, prefix), c)
                     /\ ~contains(c, Current)})

\* DataBuilder.merge, lines 339-355, of a freshly made builder (its
\* self.target_name is None and its backend holds the generated name): the
\* database as the call leaves it and the name of the collection the merge
\* batches write into
merge_target(db, sources, target_name) ==
    LET dropped == IF sources = None
                   THEN [db EXCEPT ![GeneratedName] = "empty"]
                   ELSE db
        name    == IF target_name # None THEN target_name ELSE GeneratedName
    IN  [db |-> clean_old_collections(dropped, target_name), name |-> name]

InitDb ==
    /\ root_key = <<>>
    /\ cols = {}
    /\ build = <<>>
    /\ pending_to_build = FALSE
    /\ target = EmptyTarget
    /\ merges = [m \in MergeIds |-> IdleRec]
    /\ nfaults = 0
    /\ running_commands = {}
    /\ cmd_cnt = 1
    /\ NoLocals
    /\ NoCall
    /\ confs = <<>> /\ natural = <<>>
    /\ log = NoLog
    /\ tdb \in [TargetCols -> {"absent", "docs"}]

\* merge(sources, target_name) up to the creation of the task
DbMerge(sources, target_name) ==
    /\ ~ret.called
    /\ LET r == merge_target(tdb, sources, target_name)
       IN  /\ tdb' = r.db
           /\ ret' = [called |-> TRUE, err |-> FALSE, val |-> r.name]
    /\ args' = [sources |-> sources, target_name |-> target_name]
    /\ log' = [kind |-> "merge", calls |-> <<>>]
    /\ UNCHANGED <<mvars, cfg, chain, confs, natural>>

\* a merge batch of the merge writes its documents (merger_worker, line 584)
DbWrite ==
    /\ ret.called
    /\ tdb' = [tdb EXCEPT ![ret.val] = "docs"]
    /\ log' = [kind |-> "write", calls |-> <<>>]
    /\ UNCHANGED <<mvars, cfg, chain, args, ret, confs, natural>>

\* clean_old_collections called on a builder constructed with target_name
DbCleanOld(target_name) ==
    /\ tdb' = clean_old_collections(tdb, target_name)
    /\ log' = [kind |-> "clean_old", calls |-> <<target_name>>]
    /\ UNCHANGED <<mvars, cfg, chain, args, ret, confs, natural>>

DbCleanTemp(build_name, date, prefix) ==
    /\ tdb' = clean_temp_collections(tdb, build_name, date, prefix)
    /\ log' = [kind |-> "clean_temp", calls |-> <<build_name, date, prefix>>]
    /\ UNCHANGED <<mvars, cfg, chain, args, ret, confs, natural>>

NextDb ==
    \/ \E sources \in {None, B}, target_name \in {None, T} : DbMerge(sources, target_name)
    \/ DbWrite
    \/ \E target_name \in {None, T} : DbCleanOld(target_name)
    \/ \E build_name \in {BuildName, <<"c", ".">>}, date \in {<<>>, <<"1">>, <<".">>},
          prefix \in {<<>>, <<"p">>} : DbCleanTemp(build_name, date, prefix)

SpecDb == InitDb /\ [][NextDb]_vars


(***************************************************************************)
(* SpecBatch: the submission loop of merge_source (lines 504-549) over the *)
(* ids of a source of up to MaxIds documents, or over a list of ids the    *)
(* caller gives, for every batch_size up to MaxBatchSize: one step per     *)
(* merge batch submitted.                                                  *)
(***************************************************************************)
MaxIds == 12
MaxBatchSize == 2

\* line 511
id_batch_size(bs) == bs * 10

\* id_feeder(col, batch_size): the _ids of the collection, in lists of
\* batch_size
id_feeder(ids, n) == iter_n(ids, n)

\* line 518: ids and [ids] or id_feeder(...); an absent or empty ids is <<>>
id_provider(ids, source, bs) ==
    IF ids # <<>> THEN <<ids>> ELSE id_feeder(source, id_batch_size(bs))

GivenIds == {<<>>, <<2>>, <<3, 1, 2>>}

BatchInputs ==
    [ids : GivenIds, source : {[i \in 1..n |-> i] : n \in 0..MaxIds},
     batch_size : 1..MaxBatchSize]

InitBatch ==
    /\ root_key = <<>>
    /\ cols = {}
    /\ build = <<>>
    /\ pending_to_build = FALSE
    /\ target = EmptyTarget
    /\ merges = [m \in MergeIds |-> IdleRec]
    /\ nfaults = 0
    /\ running_commands = {}
    /\ cmd_cnt = 1
    /\ NoLocals
    /\ args \in BatchInputs
    /\ ret = NotCalled
    /\ NoManager
    /\ NoDb

\* lines 504-518: the locals of merge_source before the loop; big is what
\* id_provider has still to yield, small what iter_n has still to yield
Call_merge_source ==
    /\ ~ret.called
    /\ ret' = [called |-> TRUE, err |-> FALSE,
               val |-> [big |-> id_provider(args.ids, args.source, args.batch_size),
                        small |-> <<>>, bnum |-> 1, cnt |-> 0, jobs |-> <<>>]]
    /\ UNCHANGED <<mvars, tdb, cfg, chain, args, confs, natural, log>>

\* lines 519-545: the next doc_ids of the two loops is submitted as a job
Submit_merge_batch ==
    LET v == ret.val
        cur == IF v.small # <<>> THEN [small |-> v.small, big |-> v.big]
               ELSE [small |-> iter_n(Head(v.big), args.batch_size), big |-> Tail(v.big)]
        doc_ids == Head(cur.small)
    IN  /\ ret.called
        /\ v.small # <<>> \/ v.big # <<>>
        /\ ret' = [ret EXCEPT !.val =
                       [big |-> cur.big, small |-> Tail(cur.small),
                        bnum |-> v.bnum + 1, cnt |-> v.cnt + Len(doc_ids),
                        jobs |-> Append(v.jobs, [batch_num |-> v.bnum, doc_ids |-> doc_ids])]]
        /\ UNCHANGED <<mvars, tdb, cfg, chain, args, confs, natural, log>>

NextBatch == Call_merge_source \/ Submit_merge_batch

SpecBatch == InitBatch /\ [][NextBatch]_vars


(***************************************************************************)
(* SpecConfig: the configuration document of "c1" under the register_status *)
(* calls of a merge in progress that are not init (lines 207-241) and      *)
(* under another writer of src_build (set_pending_to_build called from     *)
(* another process). The $unset of line 209, the find_one of line 221 and  *)
(* the replace_one of line 241 are three operations on the database: one   *)
(* step each.                                                              *)
(***************************************************************************)
\* the entry the merge in progress has appended
InitEntry == build_info("building", TRUE, Extra("init", FALSE, FALSE))

InitConfig ==
    /\ root_key = <<>>
    /\ cols = {}
    /\ build \in {Append(h, InitEntry) : h \in SeqsUpTo(OldEntries, 1)}
    /\ pending_to_build \in BOOLEAN
    /\ target = EmptyTarget
    /\ merges = [m \in MergeIds |-> IdleRec]
    /\ nfaults = 0
    /\ running_commands = {}
    /\ cmd_cnt = 1
    /\ NoLocals
    /\ NoCall
    /\ NoManager
    /\ NoDb

\* lines 200-219: build_info is made and, for status "building", the flag is
\* unset
RS_Call(status, transient, extra) ==
    /\ cfg.pc = "idle"
    /\ Last(build).status = "building"
    /\ pending_to_build' = IF status = "building" THEN FALSE ELSE pending_to_build
    /\ cfg' = [NoCfg EXCEPT !.pc = "find", !.status = status, !.transient = transient,
                            !.extra = extra]
    /\ UNCHANGED <<root_key, cols, build, target, merges, nfaults, running_commands,
                   cmd_cnt, args, ret, confs, natural, log, tdb, chain>>

\* line 221: _cfg = src_build.find_one(...)
RS_Find ==
    /\ cfg.pc = "find"
    /\ cfg' = [cfg EXCEPT !.pc = "replace", !.doc = Doc]
    /\ UNCHANGED <<mvars, args, ret, confs, natural, log, tdb, chain>>

\* lines 240-241: the last entry of _cfg is updated and the document is
\* replaced by _cfg
RS_Replace ==
    /\ cfg.pc = "replace"
    /\ SetDoc([build |-> [cfg.doc.build EXCEPT ![Len(cfg.doc.build)] =
                              entry_update(@, cfg.status, cfg.transient, cfg.extra)],
               pending |-> cfg.doc.pending])
    /\ cfg' = NoCfg
    /\ UNCHANGED <<root_key, cols, target, merges, nfaults, running_commands,
                   cmd_cnt, args, ret, confs, natural, log, tdb, chain>>

\* set_pending_to_build of another process: $set on the document
WriterSetPending ==
    /\ ~pending_to_build
    /\ pending_to_build' = TRUE
    /\ UNCHANGED <<root_key, cols, build, target, merges, nfaults, running_commands,
                   cmd_cnt, aside>>

NextConfig ==
    \/ \E step \in {"merge-root", "merge-others", "finalizing", "post-merge"} :
           RS_Call("building", TRUE, Extra(step, FALSE, FALSE))
    \/ RS_Call("success", FALSE, Extra(NoStep, FALSE, TRUE))
    \/ RS_Call("failed", FALSE, Extra(NoStep, TRUE, FALSE))
    \/ RS_Find
    \/ RS_Replace
    \/ WriterSetPending

SpecConfig == InitConfig /\ [][NextConfig]_vars


(***************************************************************************)
(* SpecChain: one chained command "f1() && ... && fn()" of 2..MaxChain     *)
(* functions submitted through HubShell.eval, which runs                   *)
(* _and(partial(f1), ..., partial(fn)) (hub.py, lines 133-149, 450-477).   *)
(* A function is named by its index in the command; every call of a        *)
(* function returns a new task, which ends by returning, raising or being  *)
(* cancelled. The k-th invocation of _and is chain.inv[k] and the task of  *)
(* the function it calls is task k, whose state is chain.st[k]. The        *)
(* done-callback of a task runs in a later run of the event loop than the  *)
(* one that ends the task, so that an eval call can come in between.       *)
(***************************************************************************)
MaxChain == 4

ChainLines == <<"f1()", "f1() && f2()", "f1() && f2() && f3()",
                "f1() && f2() && f3() && f4()",
                "f1() && f2() && f3() && f4() && f5()">>

\* a mutant of and_locals: funcs keeps func2
and_locals_keep(fs) ==
    [func1 |-> fs[1],
     func2 |-> IF Len(fs) > 1 THEN fs[2] ELSE 0,
     funcs |-> IF Len(fs) > 1 THEN Tail(fs) ELSE fs]

\* _and(*fs), lines 458-475: func1, func2 (0 for None) and funcs as the
\* closure do() finds them
and_locals(fs) ==
    [func1 |-> fs[1],
     func2 |-> IF Len(fs) > 1 THEN fs[2] ELSE 0,
     funcs |-> IF Len(fs) > 2 THEN SubSeq(fs, 3, Len(fs))
               ELSE IF Len(fs) > 1 THEN <<>> ELSE fs]

\* _and(*fs) up to its return: func1 is called and returns a new task, which
\* is the only element of the all_res the invocation returns; do() is not
\* yet run
and_invoke(ch, fs) ==
    LET k == Len(ch.inv) + 1
        l == and_locals(fs)
    IN  [ch EXCEPT !.inv = Append(@, [func2 |-> l.func2, funcs |-> l.funcs,
                                      all_res |-> <<k>>, did |-> FALSE]),
                   !.st = Append(@, "pending"),
                   !.called = Append(@, l.func1)]

ChainDone(ch, k) == ch.st[k] # "pending"

\* the reporting loop of eval (lines 173-189) for a command whose jobs are
\* the all_res list of the first invocation of _and: the command is popped
\* when every job is done, unless j.exception() of a cancelled job raises
ChainReported(rc, ch) ==
    LET jobs == Range(ch.inv[1].all_res)
    IN  IF (\A j \in jobs : ChainDone(ch, j)) /\ (\A j \in jobs : ch.st[j] # "cancelled")
        THEN {}
        ELSE rc

InitChain ==
    /\ root_key = <<>>
    /\ cols = {}
    /\ build = <<>>
    /\ pending_to_build = FALSE
    /\ target = EmptyTarget
    /\ merges = [m \in MergeIds |-> IdleRec]
    /\ nfaults = 0
    /\ running_commands = {}
    /\ cmd_cnt = 1
    /\ NoLocals
    /\ NoCall
    /\ NoManager
    /\ NoDb

\* eval of the chained command of n functions: the list _and returns is
\* registered as the jobs of the command (register_command keeps the list
\* itself, line 105; job 0 stands for it), then the reporting loop runs
ChainEval(n) ==
    /\ chain = NoChain
    /\ LET ch == [and_invoke(NoChain, [i \in 1..n |-> i]) EXCEPT !.n = n]
       IN  /\ chain' = ch
           /\ running_commands' =
                  ChainReported(running_commands \cup
                                    {[num |-> cmd_cnt, cmd |-> ChainLines[n], job |-> 0]}, ch)
    /\ cmd_cnt' = cmd_cnt + 1
    /\ UNCHANGED <<root_key, cols, build, pending_to_build, target, merges, nfaults,
                   args, ret, confs, natural, log, tdb, cfg>>

\* task k ends: "ok" it returned, "exc" it raised, "cancelled"
ChainTaskEnd(k, outcome) ==
    /\ k \in 1..Len(chain.st)
    /\ chain.st[k] = "pending"
    /\ chain' = [chain EXCEPT !.st[k] = outcome]
    /\ UNCHANGED <<mvars, args, ret, confs, natural, log, tdb, cfg>>

\* do(f, cb), lines 466-469, the done-callback of task k: f.result() raises
\* for a task that raised or was cancelled; else, with a cb, _and(cb, *funcs)
\* is run and its list appended to the all_res of this invocation
ChainDo(k) ==
    /\ k \in 1..Len(chain.inv)
    /\ ChainDone(chain, k)
    /\ ~chain.inv[k].did
    /\ LET i == chain.inv[k]
       IN  IF chain.st[k] = "ok" /\ i.func2 # 0
           THEN LET ch == and_invoke(chain, <<i.func2>> \o i.funcs)
                IN  chain' = [ch EXCEPT !.inv[k].did = TRUE,
                                        !.inv[k].all_res = @ \o Last(ch.inv).all_res]
           ELSE chain' = [chain EXCEPT !.inv[k].did = TRUE]
    /\ UNCHANGED <<mvars, args, ret, confs, natural, log, tdb, cfg>>

\* eval of a command that returns no task: the reporting loop
ChainQuery ==
    /\ chain # NoChain
    /\ running_commands # {}
    /\ running_commands' = ChainReported(running_commands, chain)
    /\ UNCHANGED <<root_key, cols, build, pending_to_build, target, merges, nfaults,
                   cmd_cnt, aside>>

NextChain ==
    \/ \E n \in 2..MaxChain : ChainEval(n)
    \/ \E k \in 1..MaxChain, outcome \in {"ok", "exc", "cancelled"} : ChainTaskEnd(k, outcome)
    \/ \E k \in 1..MaxChain : ChainDo(k)
    \/ ChainQuery

SpecChain == InitChain /\ [][NextChain]_vars


(***************************************************************************)
(* Claims.                                                                 *)
(***************************************************************************)
\* the step in which the store_stats callback of merge m runs
StoreStatsStep(m) ==
    /\ TaskDone(merges[m])
    /\ merges[m].stored = "no"
    /\ merges'[m].stored # "no"

Terminal(status) == status \in {"success", "failed"}

\* C1: when the store_stats callback of a merge runs, it leaves the last
\* history entry "failed" with an err field if the merge_sources task ended
\* with an exception, and "success" (with stats) only otherwise; what it
\* writes is one terminal status.
C1_StoreStatsRecordsOutcome ==
    [][\A m \in MergeIds :
          StoreStatsStep(m) =>
             LET e == Last(build')
             IN  /\ Terminal(e.status)
                 /\ e.status = "success" => e.stats
                 /\ merges[m].result = "exc" => (e.status = "failed" /\ e.err)]_vars

\* C2: when the task returned by merge() was cancelled, the store_stats
\* callback leaves the last history entry "failed" with an err field: a
\* cancelled merge is never recorded as "success".
C2_CancelledIsFailed ==
    [][\A m \in MergeIds :
          (StoreStatsStep(m) /\ merges[m].result = "cancelled") =>
             (Last(build').status = "failed" /\ Last(build').err)]_vars

\* C3: in every reachable state the "build" history of the configuration
\* holds at most max_build_status entries.
C3_HistoryBounded == Len(build) <= max_build_status

\* C3 witness: more merges were started than the bound, the oldest entry was
\* evicted and the last entry has been updated in place by a later step
C3_Witness ==
    /\ Cardinality(Started) > max_build_status
    /\ Len(build) = max_build_status
    /\ Last(build).step = "post-merge"

\* something of merge r is still to run: its merge_sources task or the
\* task's done-callback, one of its source tasks or one of its batch jobs
InFlight(r) == r.phase # "idle" /\ ~Over(r)

\* C4: when the history is not empty, its last entry has a terminal status
\* if and only if no merge of the configuration is in flight.
C4_TerminalIffNotInFlight ==
    build # <<>> =>
        (Terminal(Last(build).status) <=> ~\E m \in MergeIds : InFlight(merges[m]))

\* C5: at no time are the merge_sources tasks of two merges of the same
\* configuration pending.
C5_OneMergeAtATime ==
    Cardinality({m \in MergeIds : merges[m].result = "pending"}) <= 1

Submitted(r, s) == r.src[s].st # "none" \/ \E b \in BatchNums : r.batch[s][b] # "unsub"

\* C6: within a merge, a non-root source is started (and so has a batch
\* submitted) only when every batch of every root source of the merge has
\* completed; if a root source failed, no non-root source is started and
\* finalize() is not called.
C6_RootsBeforeOthers ==
    \A m \in MergeIds :
        LET r == merges[m]
        IN  /\ \A s \in Range(r.other_sources) :
                  Submitted(r, s) =>
                      \A t \in Range(r.root_sources) : \A b \in 1..NB(t) : r.batch[t][b] = "ok"
            /\ (\E t \in Range(r.root_sources) : r.src[t].st = "err") =>
                  /\ \A s \in Range(r.other_sources) : ~Submitted(r, s)
                  /\ ~r.finalized

\* C6 witness: a merge with root sources has a batch of a non-root source running
C6_Witness ==
    \E m \in MergeIds :
        /\ merges[m].root_sources # <<>>
        /\ \E s \in Range(merges[m].other_sources) : BatchRunning(merges[m], s)

\* a source that is no root source while root sources are defined
UpdateOnly(s) == DefinedRoots.val # <<>> /\ s \notin Range(DefinedRoots.val)

\* C7: a step in which a batch job of an update-only source (a non-root
\* source while root sources are defined) ends leaves the set of _ids of the
\* target unchanged: no document is created. Stated by contraposition: a step
\* that changes the set of _ids is not the end of such a batch job.
C7_UpdateOnlyCreatesNothing ==
    [][TargetIds(target') # TargetIds(target) =>
          ~\E m \in MergeIds, s \in MergeSrcs, b \in BatchNums :
               /\ merges[m].batch[s][b] = "running"
               /\ merges'[m].batch[s][b] # "running"
               /\ UpdateOnly(s)]_vars

\* C7 witness: a batch of the update-only source b has written: document 3,
\* created by a, carries b's fields and document 4 does not exist
C7_Witness ==
    /\ UpdateOnly(B)
    /\ \E m \in MergeIds : merges[m].batch[B][1] = "ok"
    /\ target[3] = {A, B}
    /\ target[4] = {}

\* merge r has completed without error and its callback has not run yet
Succeeded(r) == r.result = "ok" /\ r.stored = "no"

SomeRootIn(S) == DefinedRoots.val = <<>> \/ S \cap Range(DefinedRoots.val) # {}

PositiveList(rk) == rk # <<>> /\ \A i \in 1..Len(rk) : ~startswith_bang(rk[i])
NegatedList(rk) == rk # <<>> /\ \A i \in 1..Len(rk) : startswith_bang(rk[i])

\* C9: under a non-empty positive root list, every merge_source task of a
\* source that is not in the list runs with upsert = false.
C9_UnlistedIsUpdateOnly ==
    PositiveList(root_key) =>
        \A m \in MergeIds, s \in MergeSrcs :
            (merges[m].src[s].st # "none" /\ s \notin Range(root_key)) => ~merges[m].src[s].upsert

\* C10: under a negated root list, every merge_source task of a source the
\* list names (its "!" stripped) runs with upsert = false.
C10_NegatedIsUpdateOnly ==
    NegatedList(root_key) =>
        \A m \in MergeIds, s \in MergeSrcs :
            (merges[m].src[s].st # "none" /\ s \in {replace_bang(root_key[i]) : i \in 1..Len(root_key)})
                => ~merges[m].src[s].upsert

\* the configured sources are literal names of existing collections with
\* master records
AllLiteral(a) == Range(a.srcs) \subseteq (Literals \cap MasterNames \cap a.catalog)

Stripped(rk) == {replace_bang(rk[i]) : i \in 1..Len(rk)}

\* C11: called with a purely negated root list, over configured sources that
\* are literal names of existing collections with master records,
\* get_root_document_sources returns, as a set, the configured sources minus
\* the negated names.
C11_NegatedListIsComplement ==
    (ret.called /\ NegatedList(args.root) /\ AllLiteral(args)) =>
        (~ret.err /\ Range(ret.val) = Range(args.srcs) \ Stripped(args.root))

\* C11 witness: root ["!a","!b"] over sources [a,b,c,d] has returned {c,d}
C11_Witness ==
    /\ ret.called
    /\ args.root = <<NotA, NotB>>
    /\ args.srcs = <<A, B, C, D>>
    /\ args.catalog = Literals
    /\ Range(ret.val) = {C, D}

MixedList(rk) ==
    /\ \E i \in 1..Len(rk) : startswith_bang(rk[i])
    /\ \E i \in 1..Len(rk) : ~startswith_bang(rk[i])

\* C12: called with a root list that has an entry prefixed with "!" and an
\* entry without it, get_root_document_sources raises BuilderException and
\* returns no list.
C12_MixedListRaises ==
    (ret.called /\ MixedList(args.root)) => (ret.err /\ ret.val = <<>>)

\* C12 witness: the call with root ["a","!b"] has raised
C12_Witness ==
    /\ ret.called
    /\ args.root = <<A, NotB>>
    /\ ret.err

\* a step in which the manager ran a merge command, or a poll tick
MergeCommandStep == log' # log /\ log'.kind = "merge"
PollTickStep == log' # log /\ log'.kind = "tick"

\* C13: a merge command without force on a configuration with a source that
\* has no successful upload raises ResourceNotReady and leaves the last
\* history entry of the configuration, the entry of the attempt, with status
\* "failed" and an err field (so not "building"); a merge command with force
\* never raises ResourceNotReady.
C13_NotReadyIsRecorded ==
    [][MergeCommandStep =>
          LET c == log'.calls[1]
              h == confs'[c.name].build
          IN  /\ (~c.force /\ ~confs[c.name].ready) =>
                     /\ c.raised = "ResourceNotReady"
                     /\ h # <<>>
                     /\ Last(h).status = "failed"
                     /\ Last(h).err
              /\ c.force => c.raised # "ResourceNotReady"]_vars

CalledNames(calls) == [i \in 1..Len(calls) |-> calls[i].name]

\* C14: a poll tick calls merge for every configuration whose
\* pending_to_build flag is set, in lexical order of the names, every merge
\* is launched, and after the tick the flag of every such configuration is
\* cleared.
C14_PollLaunchesAllInOrder ==
    [][PollTickStep =>
          LET P == {n \in ConfNames : confs[n].pending}
              called == CalledNames(log'.calls)
          IN  /\ Range(called) = P
              /\ \A i \in 1..Len(called) : log'.calls[i].raised = "no"
              /\ \A i, j \in 1..Len(called) : i < j => LexLess(called[i], called[j])
              /\ \A n \in P : ~confs'[n].pending]_vars

\* C15: on a poll tick, when merge raises for one pending configuration,
\* merge is still called for every other pending configuration of the tick.
C15_PollContinuesAfterError ==
    [][PollTickStep =>
          Range(CalledNames(log'.calls)) = {n \in ConfNames : confs[n].pending}]_vars

\* the step in which DataBuilder.merge starts merge m: its call of
\* register_status("building", transient=True, init=True)
MergeStartStep(m) == merges[m].phase = "idle" /\ merges'[m].phase = "start"

\* C16: every step that calls register_status("building", transient=true,
\* init=true) leaves the configuration document with pending_to_build not
\* set, whatever the flag was before.
C16_BuildingClearsPending ==
    [][(\E m \in MergeIds : MergeStartStep(m)) => ~pending_to_build']_vars

\* C16 witness: a merge started by a poll tick, which found the flag set (no
\* command is registered for it), has its "init" entry and the flag is clear
C16_Witness ==
    /\ \E m \in MergeIds :
           /\ merges[m].phase = "start"
           /\ \A c \in running_commands : c.job # m
    /\ Last(build).step = "init"
    /\ ~pending_to_build

\* a batch of source s of merge r has completed with an error: its worker
\* returned a value that is no int, or raised
BatchFailed(r, s) == \E b \in BatchNums : r.batch[s][b] \in {"bad", "exc"}

\* C17: once a batch of a source has completed with an error, a step submits
\* no further batch of that source, the merge_source task of the source does
\* not return normally and the merge does not complete without error.
C17_FailFast ==
    [][\A m \in MergeIds, s \in MergeSrcs :
          BatchFailed(merges[m], s) =>
              /\ \A b \in BatchNums :
                     merges[m].batch[s][b] = "unsub" => merges'[m].batch[s][b] = "unsub"
              /\ merges'[m].src[s].st # "ok"
              /\ merges'[m].result # "ok"]_vars

RECURSIVE SumTo(_, _)
SumTo(f, n) == IF n = 0 THEN 0 ELSE f[n] + SumTo(f, n - 1)

\* C18: when a merge has completed without error, its stats map the name of
\* each merged source to the sum of the counts returned by the batch workers
\* of that source.
C18_StatsAreWorkerSums ==
    \A m \in MergeIds :
        Succeeded(merges[m]) =>
            \A s \in merges[m].source_names :
                [key |-> s, cnt |-> SumTo(merges[m].count[s], NB(s))] \in merges[m].stats

S1Target == [i \in Ids |-> IF i = 1 THEN {A} ELSE IF i \in {2, 3} THEN {A, B} ELSE {}]

\* C19: under root list ["a"] over sources a (ids 1,2,3) and b (ids 2,3,4),
\* when a full merge has completed without error the target holds exactly
\* the ids 1,2,3, documents 2 and 3 carry the fields of a and of b, and id 4
\* is absent, whatever the order in which the batches ended.
C19_S1Target ==
    \A m \in MergeIds :
        (root_key = <<A>> /\ cols = {A, B} /\ Succeeded(merges[m]) /\ merges[m].full) =>
            target = S1Target

\* C19 witness: such a full merge has completed, the batches of a having
\* written three documents and those of b two (ids 2 and 3, not 4)
C19_Witness ==
    \E m \in MergeIds :
        /\ root_key = <<A>> /\ cols = {A, B}
        /\ Succeeded(merges[m]) /\ merges[m].full
        /\ SumTo(merges[m].count[A], NB(A)) = 3
        /\ SumTo(merges[m].count[B], NB(B)) = 2
        /\ target = S1Target

\* merge r is running or has just completed, root sources are defined and
\* none of them is among the sources r merges
NoRootMerged(r) ==
    /\ r.result \in {"pending", "ok"}
    /\ r.stored = "no"
    /\ r.source_names # {}
    /\ DefinedRoots.val # <<>>
    /\ r.source_names \cap Range(DefinedRoots.val) = {}

\* C20: for the first merge into the empty target, when root sources are
\* defined and none is among the merged sources, every step leaves the
\* target empty, and the store_stats callback of the merge completed without
\* error registers "success" (unless store_stats itself fails).
C20_NoRootMergeSucceedsEmpty ==
    [][\A m \in MergeIds :
          (Started = {m} /\ NoRootMerged(merges[m])) =>
              /\ TargetIds(target') = {}
              /\ (StoreStatsStep(m) /\ merges[m].result = "ok" /\ nfaults' = nfaults) =>
                     Last(build').status = "success"]_vars

\* C20 witness: the merge of b alone under root list ["a"] has been recorded
\* "success", every batch of b having ended, and the target is empty
C20_Witness ==
    /\ root_key = <<A>>
    /\ cols = {A, B}
    /\ \E m \in MergeIds : Started = {m} /\ merges[m].result = "ok" /\ merges[m].stored = "success"
    /\ \A c \in running_commands : c.cmd = "merge('c1','b')"
    /\ running_commands # {}
    /\ Last(build).status = "success"
    /\ nfaults = 0
    /\ TargetIds(target) = {}

\* every element of list X is the name of a collection of the catalog
AllExisting(names, catalog) == \A i \in 1..Len(names) : names[i] \in catalog

\* C24: for every list X of names of existing collections, names returned by
\* a previous resolve_sources included, resolve_sources(X) returns X without
\* raising, and resolve_sources of the result returns the result.
C24_ResolveIdempotent ==
    /\ (ret.called /\ AllExisting(args.sources, args.catalog)) =>
           ~ret.err /\ ret.val = args.sources
    /\ log.kind = "again" =>
           ~log.calls[1].err /\ log.calls[1].val = ret.val

\* the pattern resolve_sources compiles for a source: the master's name when
\* it differs from its _id, else the source name
PatternOf(src) == IF SrcMaster(src)._id # SrcMaster(src).name THEN SrcMaster(src).name ELSE src

\* C25: resolve_sources raises when a given source has no master record, and
\* returns otherwise exactly the collections of the catalog whose full name
\* matches the pattern of at least one given source; for source chr (name
\* chr_.*) over {chr_1, chr_2, chr_MT, other} these are chr_1, chr_2, chr_MT.
C25_ResolveIsMatchSet ==
    ret.called =>
        /\ ret.err <=> \E i \in 1..Len(args.sources) : args.sources[i] \notin MasterNames
        /\ ~ret.err =>
               Range(ret.val) = {c \in args.catalog :
                                    \E i \in 1..Len(args.sources) :
                                        PatMatch(PatternOf(args.sources[i]), c)}
        /\ (args.sources = <<CHR>> /\ args.catalog = {CHR1, CHR2, CHRMT, Other}) =>
               Range(ret.val) = {CHR1, CHR2, CHRMT}

\* C25 witness: resolve_sources(["chr"]) has returned the three chr_ collections
C25_Witness ==
    /\ ret.called /\ ~ret.err
    /\ args.sources = <<CHR>>
    /\ args.catalog = {CHR1, CHR2, CHRMT, Other}
    /\ ret.val = <<CHR1, CHR2, CHRMT>>

\* the rank of a step in the order init, merge-root, merge-others,
\* finalizing, post-merge
StepRank(step) ==
    IF step = "init" THEN 1 ELSE IF step = "merge-root" THEN 2
    ELSE IF step = "merge-others" THEN 3 ELSE IF step = "finalizing" THEN 4 ELSE 5

\* history entry e shows the step the running merge r is in, with status
\* "building"
StepRegistered(r, e) ==
    /\ r.phase = "start"  => e.step = "init"
    /\ r.phase = "root"   => e.step = "merge-root"
    /\ r.phase = "others" => e.step = "merge-others"
    /\ r.phase = "post"   => e.step = "post-merge"
    /\ e.status = "building"

\* every source of merge r has been merged: its merge_source task returned
AllMerged(r) == \A s \in r.source_names : r.src[s].st = "ok"

\* within the merge, a step changes the step of the history entry only to a
\* later one
StepsInOrder ==
    \A m \in MergeIds :
        (merges[m].result = "pending" /\ merges[m].phase # "idle"
            /\ Last(build').step # Last(build).step) =>
                StepRank(Last(build').step) > StepRank(Last(build).step)

\* C26 as stated: the steps of the entry follow the order init, merge-root,
\* merge-others, finalizing, post-merge, each registered "building" before
\* its work; finalize() has run only when every source is merged; the
\* post-merge job runs only when "post" is requested and finalize() has run.
C26_Original ==
    [][/\ StepsInOrder
       /\ \A m \in MergeIds :
              LET r == merges'[m]
              IN  r.result = "pending" =>
                      /\ StepRegistered(r, Last(build'))
                      /\ r.finalized => AllMerged(r)
                      /\ r.phase = "post" => "post" \in r.steps /\ r.finalized]_vars

\* C26 amended: as C26, the post-merge job following finalize() whenever
\* "merge" is among the steps; without "merge" no source is merged and
\* finalize() is not run.
C26_StepsInOrder ==
    [][/\ StepsInOrder
       /\ \A m \in MergeIds :
              LET r == merges'[m]
              IN  r.result = "pending" =>
                      /\ StepRegistered(r, Last(build'))
                      /\ r.finalized => AllMerged(r)
                      /\ r.phase = "post" =>
                             /\ "post" \in r.steps
                             /\ r.finalized <=> "merge" \in r.steps
                             /\ "merge" \notin r.steps =>
                                    \A s \in MergeSrcs : r.src[s].st = "none"]_vars

\* C26 witness: a full merge with both steps waits for its post-merge job,
\* both sources merged and finalize() run
C26_Witness ==
    \E m \in MergeIds :
        /\ merges[m].phase = "post" /\ merges[m].result = "pending"
        /\ merges[m].steps = DefaultSteps
        /\ merges[m].full /\ merges[m].finalized
        /\ merges[m].root_sources = <<A>> /\ merges[m].other_sources = <<B>>
        /\ Last(build).step = "post-merge"

\* C27: in every history entry, 'pid' is present if and only if the status
\* is "building", and 'time' and 'time_in_s' are present only if the status
\* is "success" or "failed".
C27_PidIffBuilding ==
    \A i \in 1..Len(build) :
        /\ build[i].pid <=> build[i].status = "building"
        /\ build[i].time => Terminal(build[i].status)

Min(a, b) == IF a < b THEN a ELSE b

\* the last n elements of sequence q
Suffix(q, n) == SubSeq(q, Len(q) - n + 1, Len(q))

\* C28: register_status with init=true leaves as history the suffix of (old
\* history + new entry) of length min(old length + 1, max_build_status), the
\* new entry last; the terminal register_status that follows rewrites the
\* last entry only, so a merge that follows a finished one under
\* max_build_status = 2 leaves two terminal entries, the older one first.
C28_InitKeepsNewestSuffix ==
    LET old == args.doc.build
        new == build_info("building", TRUE, Extra("init", FALSE, FALSE))
        after == ret.val.build
        final == log.calls[1].build
    IN  /\ ret.called =>
               /\ after = Suffix(Append(old, new), Min(Len(old) + 1, args.maxb))
               /\ Last(after) = new
        /\ log.kind = "terminal" =>
               /\ Len(final) = Len(after)
               /\ \A i \in 1..(Len(after) - 1) : final[i] = after[i]
               /\ Terminal(Last(final).status)
               /\ (args.maxb = 2 /\ Len(old) = 1 /\ Terminal(old[1].status)) =>
                      /\ Len(final) = 2
                      /\ final[1] = old[1]
                      /\ Terminal(final[1].status) /\ Terminal(final[2].status)

\* C28 witness: the call on a history of three entries under bound 2 has
\* kept the newest old entry and the new one, and the merge has ended
C28_Witness ==
    /\ ret.called
    /\ Len(args.doc.build) = 3
    /\ args.maxb = 2
    /\ args.doc.build[2] # args.doc.build[3]
    /\ ret.val.build[1] = args.doc.build[3]
    /\ log.kind = "terminal"

\* C29: eval(line) raises AlreadyRunningException if and only if a command
\* submitted earlier with the identical line still has a job that is not
\* done; a line whose previous submission has finished is accepted.
C29_RejectedIffStillRunning ==
    \A line \in Lines :
        AlreadyRunning(line) <=>
            \E c \in running_commands : c.cmd = line /\ ~TaskDone(merges[c.job])

\* C30: a command that returns a task is registered under the number
\* cmd_cnt, which then grows by one, so that numbers are unique, never
\* reused and increasing, and the entry is in running_commands when eval
\* returns; a command that returns no task registers nothing;
\* an entry leaves running_commands only in an eval call, its job done.
C30_CommandNumbers ==
    [][/\ cmd_cnt' >= cmd_cnt
       /\ \A c \in running_commands' : c.num < cmd_cnt'
       /\ \A c, d \in running_commands' : c.num = d.num => c = d
       /\ \A c \in running_commands' \ running_commands :
              c.num = cmd_cnt /\ cmd_cnt' = cmd_cnt + 1
       /\ cmd_cnt' # cmd_cnt => \E c \in running_commands' : c.num = cmd_cnt
       /\ cmd_cnt' = cmd_cnt => running_commands' \subseteq running_commands
       /\ \A c \in running_commands \ running_commands' :
              TaskDone(merges[c.job]) /\ merges'[c.job] = merges[c.job]
       /\ (\E m \in MergeIds : merges'[m] # merges[m] /\ merges[m].phase # "idle") =>
              running_commands' = running_commands]_vars

\* C30 witness: two commands have been registered, the first has been
\* reported finished and removed, the second is registered under number 2
C30_Witness ==
    /\ cmd_cnt = 3
    /\ \E c \in running_commands : c.num = 2
    /\ \A c \in running_commands : c.num # 1

\* C21: a merge called without sources leaves the collection its batches
\* write into dropped and prepared (empty) before any batch write, also when
\* a target_name is passed; a merge called with sources leaves that
\* collection as it was.
C21_FullMergeDropsTarget ==
    [][log'.kind = "merge" =>
          /\ args'.sources = None => tdb'[ret'.val] = "empty"
          /\ args'.sources # None => tdb'[ret'.val] = tdb[ret'.val]]_vars

\* the collections of db whose name starts with the prefix of
\* clean_old_collections
Archived(db, target_name) ==
    {c \in Existing(db) :
        startswith(c, (IF target_name # None THEN target_name ELSE BuildName) \o <<"_">>)}

\* C22: after clean_old_collections at most keep_archive collections with
\* the prefix are left, they are the lexicographically greatest of those
\* present before, and no collection without the prefix is dropped.
C22_CleanOldKeepsGreatest ==
    [][log'.kind = "clean_old" =>
          LET before == Archived(tdb, log'.calls[1])
              after  == Archived(tdb', log'.calls[1])
          IN  /\ Cardinality(after) <= keep_archive
              /\ Cardinality(after) = Min(Cardinality(before), keep_archive)
              /\ after \subseteq before
              /\ \A k \in after, d \in before \ after : LexLess(d, k)
              /\ \A c \in TargetCols \ before : tdb'[c] = tdb[c]
              /\ \A c \in after : tdb'[c] = tdb[c]]_vars

\* C22 witness: clean_old_collections has dropped the two oldest of four
\* collections of the build and kept the two greatest
C22_Witness ==
    /\ log.kind = "clean_old"
    /\ log.calls = <<None>>
    /\ tdb[BuildName \o <<"_", "1">>] = "absent"
    /\ tdb[BuildName \o <<"_", "2">>] = "absent"
    /\ tdb[GeneratedName] = "docs"
    /\ tdb[BuildName \o <<"_">> \o Current] = "docs"
    /\ tdb[T \o <<"_", "1">>] = "docs"

\* name col matches pattern pat at its start
MatchesAtStart(pat, col) == \E k \in 0..Len(col) : PatMatch(pat, SubSeq(col, 1, k))

\* C23: clean_temp_collections drops exactly the collections whose name
\* matches <prefix>_<build_name>_[<date>_] at the start and does not hold
\* "current"; a collection whose name holds "current" is never dropped.
C23_CleanTempSparesCurrent ==
    [][log'.kind = "clean_temp" =>
          LET pat == temp_search(log'.calls[1], log'.calls[2], log'.calls[3])
          IN  \A c \in TargetCols :
                  /\ (tdb[c] # "absent" /\ tdb'[c] = "absent") <=>
                         /\ tdb[c] # "absent"
                         /\ MatchesAtStart(pat, c)
                         /\ ~contains(c, Current)
                  /\ tdb'[c] # "absent" => tdb'[c] = tdb[c]
                  /\ contains(c, Current) => tdb'[c] = tdb[c]]_vars

\* C23 witness: clean_temp_collections("c1") has dropped the collections of
\* the build and left c1_current, which matches the pattern, in place
C23_Witness ==
    /\ log.kind = "clean_temp"
    /\ log.calls = <<BuildName, <<>>, <<>>>>
    /\ tdb[BuildName \o <<"_">> \o Current] = "docs"
    /\ tdb[BuildName \o <<"_", "1">>] = "absent"
    /\ tdb[GeneratedName] = "absent"
    /\ tdb[<<"c", "2", "_", "1">>] = "docs"
    /\ ~ret.called

\* the list merge_source iterates: the ids given, else the ids of the source
Iterated == IF args.ids # <<>> THEN args.ids ELSE args.source

C38_NoWriteAfterTerminal ==
    [][\A m \in MergeIds, s \in MergeSrcs, b \in BatchNums :
           ( /\ merges[m].batch[s][b] = "running"
             /\ merges'[m].batch[s][b] # "running"
             /\ target' # target )
           => merges[m].stored = "no"]_vars

\* C34: a history entry with a terminal status is not changed by any later
\* register_status call; only the call that appends a new entry (and evicts
\* the oldest ones) may move it.
C34_TerminalEntryFrozen ==
    [][(\A m \in MergeIds : ~MergeStartStep(m)) =>
           \A i \in 1..Len(build) :
               Terminal(build[i].status) => i <= Len(build') /\ build'[i] = build[i]]_vars

\* C35: a history entry in status 'building' reaches 'success' or 'failed'.
\* register_status updates only the last entry of the history, so the entry
\* must stay the last one until it is terminal: no merge appends a new entry
\* (which buries or evicts it) while the last entry is 'building'.
C35_BuildingEntryReachesTerminal ==
    [][\A m \in MergeIds :
           MergeStartStep(m) => build = <<>> \/ Terminal(Last(build).status)]_vars

\* C36: a pending_to_build flag that is set is cleared only by the
\* register_status call of a merge that starts (the one appending a new
\* history entry).
C36_PendingClearedOnlyByStart ==
    [][pending_to_build /\ ~pending_to_build' => \E m \in MergeIds : MergeStartStep(m)]_vars

\* C39: a merge call that raises before it has appended a 'building' entry
\* (ResourceNotReady, BuilderException) leaves the target collection and
\* the build history of its configuration as they were.
C39_RaisingMergeChangesNothing ==
    [][\A i \in 1..Len(log'.calls) :
           log'.calls[i].raised # "no" =>
               LET n == log'.calls[i].name
               IN  /\ confs'[n].target = confs[n].target
                   /\ confs'[n].build = confs[n].build]_vars

\* C37: a merge of configuration "c1" drops no target collection produced
\* by another configuration, also one whose name starts with "c1_".
C37_MergeSparesOtherBuilds ==
    [][(~ret.called /\ ret'.called) =>
           \A c \in ForeignCols : tdb[c] # "absent" => tdb'[c] # "absent"]_vars

\* C31: the write of a per-step status update (register_status with status
\* 'building', not init) changes only the last history entry: the
\* pending_to_build flag and the other entries are after the write what
\* another writer had made of them before it.
C31_StepUpdateKeepsOtherFields ==
    [][(cfg.pc = "replace" /\ cfg'.pc = "idle" /\ cfg.status = "building") =>
           /\ pending_to_build' = pending_to_build
           /\ Len(build') = Len(build)
           /\ \A i \in 1..(Len(build) - 1) : build'[i] = build[i]]_vars

\* C33: _and calls the functions one by one in the given order, each at
\* most once, and calls a function only after the task of the function
\* before it has ended without exception: after a task that raised or was
\* cancelled no further function is called.
C33_ChainInOrder ==
    /\ Len(chain.called) <= chain.n
    /\ \A i \in 1..Len(chain.called) : chain.called[i] = i
    /\ \A i \in 2..Len(chain.called) : chain.st[i - 1] = "ok"
    /\ \A k \in 1..Len(chain.st) :
           (chain.st[k] = "ok" /\ chain.inv[k].did /\ k < chain.n) => Len(chain.called) > k

\* C33 witness: the three functions of "f1() && f2() && f3()" have been
\* called and their tasks have returned
C33_Witness ==
    /\ chain.n = 3
    /\ chain.called = <<1, 2, 3>>
    /\ chain.st = <<"ok", "ok", "ok">>

\* C40: a chained command leaves running_commands only when the task of
\* every step started is done and no further step will be started (no task
\* that returned still has to run the callback that calls the next
\* function).
C40_ChainRegisteredUntilDone ==
    [][running_commands' # running_commands /\ running_commands' = {} =>
           /\ \A k \in 1..Len(chain.st) : ChainDone(chain, k)
           /\ \A k \in 1..Len(chain.st) :
                  (chain.st[k] = "ok" /\ chain.inv[k].func2 # 0) => chain.inv[k].did]_vars

====
